---- MODULE Spec2Model ----
(***************************************************************************)
(* cvc, the character set validator for C/C++ code (src/src/main.c).       *)
(*                                                                         *)
(* The module models main(): option parsing, input accumulation, EOL       *)
(* detection (determine_eol), the EOL consistency check (validate_eol)     *)
(* and the character scan (the for loop with is_eol).  A byte is a number  *)
(* 0..255; a buffer is a sequence of bytes; the memory a pass reads is the *)
(* buffer followed by the terminating NUL that main() stores behind it.    *)
(***************************************************************************)
EXTENDS Integers, Sequences, FiniteSets, TLC

\* ------------------------------------------------------------------ bounds
\* longest input accumulated by the pipeline (Spec)
MaxLen == 3
\* most bytes one fread delivers (CHUNK_SIZE scaled down)
MaxChunk == 2
\* longest string handed to a pass on its own (SpecFn)
MaxBuf == 5
\* longest string handed to the scan loop on its own (SpecScan)
MaxScanLen == 3

\* ------------------------------------------------------- program constants
MAX_VALID_CHAR == 127
CHAR_CODE_NUL == 0
CHAR_CODE_HT == 9
CHAR_CODE_LF == 10
CHAR_CODE_VT == 11
CHAR_CODE_FF == 12
CHAR_CODE_CR == 13
CHAR_CODE_SPACE == 32
CHAR_CODE_DOLLAR == 36
CHAR_CODE_AT == 64
CHAR_CODE_BACKTICK == 96

RETURN_VALID == 0
RETURN_INVALID == 1
RETURN_ERROR_EOL == 2
RETURN_ERROR_UNSPECIFIC == 3
RETURN_ERROR_INPUT == 4
RETURN_ERROR_OPTIONS == 5
EXIT_SUCCESS == 0

\* eol_t
EolStyles == {"EOL_AUTO_NA", "EOL_CR", "EOL_LF", "EOL_CRLF"}

\* every value a byte of the input can have
Byte == 0..255

\* ------------------------------------------------------------ input alphabets
\* bytes the accumulated input of the pipeline is drawn from: NUL, LF, CR,
\* '@' (forbidden by default), 'a' (always allowed)
InputBytes == {CHAR_CODE_NUL, CHAR_CODE_LF, CHAR_CODE_CR, CHAR_CODE_AT, 97}
\* bytes of the strings handed to determine_eol / validate_eol on their own
EolBytes == {CHAR_CODE_LF, CHAR_CODE_CR, 97}
\* bytes of the strings handed to the scan loop on its own
ScanBytes == {CHAR_CODE_LF, CHAR_CODE_CR, CHAR_CODE_HT, CHAR_CODE_AT, 97, 200}

SeqsUpTo(S, n) == UNION {[1..k -> S] : k \in 0..n}

\* the memory behind a char* : the bytes and the terminating NUL
Mem(buf) == buf \o <<CHAR_CODE_NUL>>

\* the string a pass sees through a const char*: the bytes before the first NUL
CString(buf) ==
    IF \E i \in 1..Len(buf) : buf[i] = CHAR_CODE_NUL
    THEN SubSeq(buf, 1, (CHOOSE i \in 1..Len(buf) :
                            /\ buf[i] = CHAR_CODE_NUL
                            /\ \A j \in 1..(i - 1) : buf[j] # CHAR_CODE_NUL) - 1)
    ELSE buf

\* ------------------------------------------------------------ determine_eol
RECURSIVE determine_eol_loop(_, _, _)
determine_eol_loop(m, p, eol) ==
    IF m[p] = CHAR_CODE_NUL THEN eol
    ELSE IF m[p] = CHAR_CODE_LF
         THEN (IF eol = "EOL_CR" THEN "EOL_CRLF" ELSE "EOL_LF")
    ELSE IF m[p] = CHAR_CODE_CR
         THEN determine_eol_loop(m, p + 1, "EOL_CR")
    ELSE IF eol = "EOL_CR" THEN eol
    ELSE determine_eol_loop(m, p + 1, eol)

\* variant: a CR still pending at the end of the string is dropped
determine_eol_drop_pending(buf) ==
    LET r == determine_eol_loop(Mem(buf), 1, "EOL_AUTO_NA")
    IN  IF r = "EOL_CR" /\ Len(buf) > 0 /\ buf[Len(buf)] = CHAR_CODE_CR
           /\ \A i \in 1..(Len(buf) - 1) : buf[i] # CHAR_CODE_CR
        THEN "EOL_AUTO_NA" ELSE r

\* variant: a bare LF is reported as EOL_CR
determine_eol_cr_for_lf(buf) ==
    LET r == determine_eol_loop(Mem(buf), 1, "EOL_AUTO_NA")
    IN  IF r = "EOL_LF" THEN "EOL_CR" ELSE r

determine_eol(buf) == determine_eol_loop(Mem(buf), 1, "EOL_AUTO_NA")

\* ------------------------------------------------------------- validate_eol
\* the switch over eol: first EOL byte, second EOL byte, invalid byte, length
eol_chars0(eol) == IF eol = "EOL_LF" THEN CHAR_CODE_LF ELSE CHAR_CODE_CR
eol_chars1(eol) == CHAR_CODE_LF
eol_invalid(eol) == IF eol = "EOL_LF" THEN CHAR_CODE_CR ELSE CHAR_CODE_LF
\* variant: every style is taken as one byte long
eol_len_one(eol) == 1
eol_len(eol) == IF eol = "EOL_CRLF" THEN 2 ELSE 1

RECURSIVE validate_eol_loop(_, _, _, _)
validate_eol_loop(m, p, line, eol) ==
    IF m[p] = CHAR_CODE_NUL THEN 0
    ELSE IF m[p] = eol_chars0(eol)
         THEN IF eol_len(eol) = 1
              THEN validate_eol_loop(m, p + 1, line + 1, eol)
              ELSE IF m[p + 1] = eol_chars1(eol)
                   THEN validate_eol_loop(m, p + eol_len(eol), line + 1, eol)
                   ELSE line
    ELSE IF m[p] = eol_invalid(eol) THEN line
    ELSE validate_eol_loop(m, p + 1, line, eol)

\* the (cursor, line) pairs the while loop of validate_eol has at its head
RECURSIVE validate_eol_cursor(_, _, _, _)
validate_eol_cursor(m, p, line, eol) ==
    {<<p, line>>} \cup
    (IF m[p] = CHAR_CODE_NUL THEN {}
     ELSE IF m[p] = eol_chars0(eol)
          THEN IF eol_len(eol) = 1
               THEN validate_eol_cursor(m, p + 1, line + 1, eol)
               ELSE IF m[p + 1] = eol_chars1(eol)
                    THEN validate_eol_cursor(m, p + eol_len(eol), line + 1, eol)
                    ELSE {}
     ELSE IF m[p] = eol_invalid(eol) THEN {}
     ELSE validate_eol_cursor(m, p + 1, line, eol))

\* variant: the line counter starts at 0
validate_eol_from0(buf, eol) ==
    IF eol = "EOL_AUTO_NA" THEN 0
    ELSE validate_eol_loop(Mem(buf), 1, 0, eol)

validate_eol(buf, eol) ==
    IF eol = "EOL_AUTO_NA" THEN 0
    ELSE validate_eol_loop(Mem(buf), 1, 1, eol)

\* ------------------------------------------------------------------- is_eol
\* variant: case EOL_CR compares with '\n'
is_eol_cr_as_lf(m, p, eol) ==
    CASE eol = "EOL_CR" -> m[p] = CHAR_CODE_LF
      [] eol = "EOL_LF" -> m[p] = CHAR_CODE_LF
      [] eol = "EOL_CRLF" -> (m[p] = CHAR_CODE_CR) /\ (m[p + 1] = CHAR_CODE_LF)
      [] OTHER -> FALSE

is_eol(m, p, eol) ==
    CASE eol = "EOL_CR" -> m[p] = CHAR_CODE_CR
      [] eol = "EOL_LF" -> m[p] = CHAR_CODE_LF
      [] eol = "EOL_CRLF" -> (m[p] = CHAR_CODE_CR) /\ (m[p + 1] = CHAR_CODE_LF)
      [] OTHER -> FALSE

\* ------------------------------------------------------------ valid_chars
\* variant: CR is left out of the preset control characters
valid_chars_init_no_cr ==
    [c \in 0..(MAX_VALID_CHAR - 1) |->
        IF c \in {CHAR_CODE_VT, CHAR_CODE_FF, CHAR_CODE_DOLLAR, CHAR_CODE_AT,
                  CHAR_CODE_BACKTICK} THEN FALSE
        ELSE IF c \in {CHAR_CODE_HT, CHAR_CODE_LF} THEN TRUE
        ELSE c >= CHAR_CODE_SPACE]

\* the table as main() presets it, before any option is read
valid_chars_init ==
    [c \in 0..(MAX_VALID_CHAR - 1) |->
        IF c \in {CHAR_CODE_VT, CHAR_CODE_FF, CHAR_CODE_DOLLAR, CHAR_CODE_AT,
                  CHAR_CODE_BACKTICK} THEN FALSE
        ELSE IF c \in {CHAR_CODE_HT, CHAR_CODE_LF, CHAR_CODE_CR} THEN TRUE
        ELSE c >= CHAR_CODE_SPACE]

\* what each option does to the table
allow_ff(t) == [t EXCEPT ![CHAR_CODE_FF] = TRUE]
allow_vt(t) == [t EXCEPT ![CHAR_CODE_VT] = TRUE]
forbid_ht(t) == [t EXCEPT ![CHAR_CODE_HT] = FALSE]
\* variant: the backtick is forgotten
allow_apa_no_backtick(t) ==
    [t EXCEPT ![CHAR_CODE_DOLLAR] = TRUE, ![CHAR_CODE_AT] = TRUE]
allow_apa(t) == [t EXCEPT ![CHAR_CODE_DOLLAR] = TRUE, ![CHAR_CODE_AT] = TRUE,
                          ![CHAR_CODE_BACKTICK] = TRUE]

\* the else-if of the scan loop: (*p < 0) || (*p > 126) || !valid_chars[*p].
\* A byte 128..255 is negative where char is signed and above 126 where it
\* is unsigned: the test is true for it on either build.
is_violation(c, t) == (c > MAX_VALID_CHAR - 1) \/ ~t[c]

\* ---------------------------------------------------------------- the state
VARIABLES
    pc,           \* where main() is
    valid_chars,  \* bool valid_chars[MAX_VALID_CHAR]
    eol,          \* eol_t eol, the configured style
    verbose,      \* bool verbose
    file,         \* file != NULL
    eol_opt,      \* the last value given to -e/--eol, "none" before
    seen,         \* the option identifiers cag_option_get has returned
    data,         \* the accumulated input, total_size = Len(data)
    e,            \* eol_t e, the style the checks use
    result,       \* unsigned int result, of validate_eol
    line,         \* scan loop: unsigned int line
    last_line,    \* scan loop: unsigned int last_line
    errors,       \* scan loop: unsigned int errors
    p,            \* scan loop: the cursor, an index into Mem(data)
    violations,   \* the (line, byte) pairs the scan has counted, in order
    out,          \* what was written to stdout
    err,          \* what was written to stderr
    calls,        \* the passes that have run, in order
    exit_code     \* the exit status, -1 while running

vars == <<pc, valid_chars, eol, verbose, file, eol_opt, seen, data, e, result,
          line, last_line, errors, p, violations, out, err, calls, exit_code>>

cfg_vars == <<valid_chars, eol, verbose, file, eol_opt, seen>>
scan_vars == <<line, last_line, errors, p, violations>>

\* the state main() starts in
Init ==
    /\ pc = "options"
    /\ valid_chars = valid_chars_init
    /\ eol = "EOL_AUTO_NA"
    /\ verbose = FALSE
    /\ file = FALSE
    /\ eol_opt = "none"
    /\ seen = {}
    /\ data = <<>>
    /\ e = "EOL_AUTO_NA"
    /\ result = 0
    /\ line = 0
    /\ last_line = 0
    /\ errors = 0
    /\ p = 0
    /\ violations = <<>>
    /\ out = <<>>
    /\ err = <<>>
    /\ calls = <<>>
    /\ exit_code = -1

\* exit(code) / return code from main
Exit(code) == pc' = "exit" /\ exit_code' = code

\* ------------------------------------------------------------ option parsing
OptFile ==
    /\ pc = "options"
    /\ file' = TRUE
    /\ seen' = seen \cup {"ARG_ID_FILE"}
    /\ UNCHANGED <<pc, valid_chars, eol, verbose, eol_opt, data, e, result,
                   scan_vars, out, err, calls, exit_code>>

OptFF ==
    /\ pc = "options"
    /\ valid_chars' = allow_ff(valid_chars)
    /\ seen' = seen \cup {"ARG_ID_FF"}
    /\ UNCHANGED <<pc, eol, verbose, file, eol_opt, data, e, result,
                   scan_vars, out, err, calls, exit_code>>

OptVT ==
    /\ pc = "options"
    /\ valid_chars' = allow_vt(valid_chars)
    /\ seen' = seen \cup {"ARG_ID_VT"}
    /\ UNCHANGED <<pc, eol, verbose, file, eol_opt, data, e, result,
                   scan_vars, out, err, calls, exit_code>>

OptNOHT ==
    /\ pc = "options"
    /\ valid_chars' = forbid_ht(valid_chars)
    /\ seen' = seen \cup {"ARG_ID_NOHT"}
    /\ UNCHANGED <<pc, eol, verbose, file, eol_opt, data, e, result,
                   scan_vars, out, err, calls, exit_code>>

OptAPA ==
    /\ pc = "options"
    /\ valid_chars' = allow_apa(valid_chars)
    /\ seen' = seen \cup {"ARG_ID_APA"}
    /\ UNCHANGED <<pc, eol, verbose, file, eol_opt, data, e, result,
                   scan_vars, out, err, calls, exit_code>>

OptVerbose ==
    /\ pc = "options"
    /\ verbose' = TRUE
    /\ seen' = seen \cup {"ARG_ID_VERBOSE"}
    /\ UNCHANGED <<pc, valid_chars, eol, file, eol_opt, data, e, result,
                   scan_vars, out, err, calls, exit_code>>

\* the values -e/--eol is given in the model; "XX" is an unsupported one and
\* "NULL" a missing one
EolOptValues == {"LF", "CRLF", "CR", "AUTO", "XX", "NULL"}

\* the strcmp chain of case ARG_ID_EOL
eol_of_option(v) ==
    CASE v = "LF" -> "EOL_LF"
      [] v = "CRLF" -> "EOL_CRLF"
      [] v = "CR" -> "EOL_CRLF"
      [] v = "AUTO" -> "EOL_AUTO_NA"
      [] OTHER -> "unsupported"

OptEol ==
    /\ pc = "options"
    /\ \E v \in EolOptValues :
        /\ eol_opt' = v
        /\ seen' = seen \cup {"ARG_ID_EOL"}
        /\ IF eol_of_option(v) # "unsupported"
           THEN /\ eol' = eol_of_option(v)
                /\ UNCHANGED <<pc, out, err, exit_code>>
           ELSE /\ err' = Append(err, <<"eol_not_supported", 0>>)
                /\ out' = Append(out, <<"usage", 0>>)
                /\ Exit(RETURN_ERROR_OPTIONS)
                /\ UNCHANGED eol
    /\ UNCHANGED <<valid_chars, verbose, file, data, e, result, scan_vars, calls>>

OptVersion ==
    /\ pc = "options"
    /\ seen' = seen \cup {"ARG_ID_VERSION"}
    /\ out' = Append(out, <<"version", 0>>)
    /\ Exit(EXIT_SUCCESS)
    /\ UNCHANGED <<valid_chars, eol, verbose, file, eol_opt, data, e, result,
                   scan_vars, err, calls>>

OptHelp ==
    /\ pc = "options"
    /\ seen' = seen \cup {"ARG_ID_HELP"}
    /\ out' = Append(out, <<"help", 0>>)
    /\ Exit(EXIT_SUCCESS)
    /\ UNCHANGED <<valid_chars, eol, verbose, file, eol_opt, data, e, result,
                   scan_vars, err, calls>>

OptInvalid ==
    /\ pc = "options"
    /\ seen' = seen \cup {"unknown"}
    /\ err' = Append(err, <<"invalid_option", 0>>)
    /\ out' = Append(out, <<"usage", 0>>)
    /\ Exit(RETURN_ERROR_OPTIONS)
    /\ UNCHANGED <<valid_chars, eol, verbose, file, eol_opt, data, e, result,
                   scan_vars, calls>>

\* cag_option_fetch returns false: the loop over the options ends
OptionsDone ==
    /\ pc = "options"
    /\ pc' = "open"
    /\ UNCHANGED <<cfg_vars, data, e, result, scan_vars, out, err, calls, exit_code>>

\* ------------------------------------------------------------------- input
\* fopen succeeds, or no file was named and stdin is read
OpenInput ==
    /\ pc = "open"
    /\ pc' = "read"
    /\ out' = IF file /\ verbose THEN Append(out, <<"file", 0>>) ELSE out
    /\ UNCHANGED <<cfg_vars, data, e, result, scan_vars, err, calls, exit_code>>

\* fopen returns NULL
OpenFail ==
    /\ pc = "open"
    /\ file
    /\ err' = Append(err, <<"open_failed", 0>>)
    /\ Exit(RETURN_ERROR_INPUT)
    /\ UNCHANGED <<cfg_vars, data, e, result, scan_vars, out, calls>>

\* what one fread can deliver
Chunks == SeqsUpTo(InputBytes, MaxChunk) \ {<<>>}

\* fread delivers bytes and realloc succeeds
ReadChunk ==
    /\ pc = "read"
    /\ \E chunk \in Chunks :
        /\ Len(data) + Len(chunk) <= MaxLen
        /\ data' = data \o chunk
    /\ UNCHANGED <<pc, cfg_vars, e, result, scan_vars, out, err, calls, exit_code>>

\* variant: the allocation failure is reported as an input error
ReadAllocFail_AsInput ==
    /\ pc = "read"
    /\ Len(data) < MaxLen
    /\ err' = Append(err, <<"alloc_failed", 0>>)
    /\ Exit(RETURN_ERROR_INPUT)
    /\ UNCHANGED <<cfg_vars, data, e, result, scan_vars, out, calls>>

\* fread delivers bytes and realloc returns NULL
ReadAllocFail ==
    /\ pc = "read"
    /\ Len(data) < MaxLen
    /\ err' = Append(err, <<"alloc_failed", 0>>)
    /\ Exit(RETURN_ERROR_UNSPECIFIC)
    /\ UNCHANGED <<cfg_vars, data, e, result, scan_vars, out, calls>>

\* variant: total_size is not tested
ReadEnd_NoSizeTest ==
    /\ pc = "read"
    /\ pc' = "eol"
    /\ UNCHANGED <<cfg_vars, data, e, result, scan_vars, out, err, calls, exit_code>>

\* fread returns 0 and total_size > 0: data[total_size] = '\0'
ReadEnd ==
    /\ pc = "read"
    /\ Len(data) > 0
    /\ pc' = "eol"
    /\ UNCHANGED <<cfg_vars, data, e, result, scan_vars, out, err, calls, exit_code>>

\* fread returns 0 and total_size = 0
EmptyInput ==
    /\ pc = "read"
    /\ Len(data) = 0
    /\ out' = IF verbose THEN Append(out, <<"empty", 0>>) ELSE out
    /\ Exit(EXIT_SUCCESS)
    /\ UNCHANGED <<cfg_vars, data, e, result, scan_vars, err, calls>>

\* ------------------------------------------------------------ the checks
\* eol == EOL_AUTO_NA: e = determine_eol(data)
DetermineEol ==
    /\ pc = "eol"
    /\ eol = "EOL_AUTO_NA"
    /\ e' = determine_eol(data)
    /\ calls' = Append(calls, "determine_eol")
    /\ pc' = "validate"
    /\ UNCHANGED <<cfg_vars, data, result, scan_vars, out, err, exit_code>>

\* eol was configured: e = eol
KeepEol ==
    /\ pc = "eol"
    /\ eol # "EOL_AUTO_NA"
    /\ e' = eol
    /\ pc' = "validate"
    /\ UNCHANGED <<cfg_vars, data, result, scan_vars, out, err, calls, exit_code>>

\* variant: a result other than 0 does not end the run
ValidateEol_NoHalt ==
    /\ pc = "validate"
    /\ result' = validate_eol(data, e)
    /\ calls' = Append(calls, "validate_eol")
    /\ pc' = "scan"
    /\ line' = 1 /\ last_line' = 0 /\ errors' = 0 /\ p' = 1 /\ violations' = <<>>
    /\ UNCHANGED <<cfg_vars, data, e, out, err, exit_code>>

\* result = validate_eol(data, e); a result other than 0 ends the run, a
\* result of 0 enters the scan loop with line = 1, last_line = 0, errors = 0
ValidateEol ==
    /\ pc = "validate"
    /\ result' = validate_eol(data, e)
    /\ calls' = Append(calls, "validate_eol")
    /\ IF result' # 0
       THEN /\ err' = IF verbose THEN Append(err, <<"unexpected_eol", result'>>)
                      ELSE err
            /\ Exit(RETURN_ERROR_EOL)
            /\ UNCHANGED scan_vars
       ELSE /\ pc' = "scan"
            /\ line' = 1
            /\ last_line' = 0
            /\ errors' = 0
            /\ p' = 1
            /\ violations' = <<>>
            /\ UNCHANGED <<err, exit_code>>
    /\ UNCHANGED <<cfg_vars, data, e, out>>

\* variant: errors++ sits inside the if (verbose) block
ScanStep_CountsWhenVerbose ==
    /\ pc = "scan"
    /\ Mem(data)[p] # CHAR_CODE_NUL
    /\ calls' = IF p = 1 THEN Append(calls, "scan") ELSE calls
    /\ IF is_eol(Mem(data), p, e)
       THEN /\ p' = (IF e = "EOL_CRLF" THEN p + 1 ELSE p) + 1
            /\ out' = IF last_line = line THEN Append(out, <<"sep", 0>>) ELSE out
            /\ line' = line + 1
            /\ UNCHANGED <<last_line, errors, violations>>
       ELSE IF is_violation(Mem(data)[p], valid_chars)
       THEN /\ out' = IF verbose
                      THEN (IF line # last_line
                            THEN Append(out, <<"line", line>>) ELSE out)
                           \o <<<<"char", Mem(data)[p]>>>>
                      ELSE out
            /\ last_line' = IF verbose THEN line ELSE last_line
            /\ errors' = IF verbose THEN errors + 1 ELSE errors
            /\ violations' = IF verbose
                             THEN Append(violations, <<line, Mem(data)[p]>>)
                             ELSE violations
            /\ p' = p + 1
            /\ UNCHANGED line
       ELSE /\ p' = p + 1
            /\ UNCHANGED <<line, last_line, errors, violations, out>>
    /\ UNCHANGED <<pc, cfg_vars, data, e, result, err, exit_code>>

\* variant: last_line = line sits outside the if (verbose) block
ScanStep_TracksLineAlways ==
    /\ pc = "scan"
    /\ Mem(data)[p] # CHAR_CODE_NUL
    /\ calls' = IF p = 1 THEN Append(calls, "scan") ELSE calls
    /\ IF is_eol(Mem(data), p, e)
       THEN /\ p' = (IF e = "EOL_CRLF" THEN p + 1 ELSE p) + 1
            /\ out' = IF last_line = line THEN Append(out, <<"sep", 0>>) ELSE out
            /\ line' = line + 1
            /\ UNCHANGED <<last_line, errors, violations>>
       ELSE IF is_violation(Mem(data)[p], valid_chars)
       THEN /\ out' = IF verbose
                      THEN (IF line # last_line
                            THEN Append(out, <<"line", line>>) ELSE out)
                           \o <<<<"char", Mem(data)[p]>>>>
                      ELSE out
            /\ last_line' = line
            /\ errors' = errors + 1
            /\ violations' = Append(violations, <<line, Mem(data)[p]>>)
            /\ p' = p + 1
            /\ UNCHANGED line
       ELSE /\ p' = p + 1
            /\ UNCHANGED <<line, last_line, errors, violations, out>>
    /\ UNCHANGED <<pc, cfg_vars, data, e, result, err, exit_code>>

\* one iteration of the scan loop, the p++ of the for statement included
ScanStep ==
    /\ pc = "scan"
    /\ Mem(data)[p] # CHAR_CODE_NUL
    /\ calls' = IF p = 1 THEN Append(calls, "scan") ELSE calls
    /\ IF is_eol(Mem(data), p, e)
       THEN /\ p' = (IF e = "EOL_CRLF" THEN p + 1 ELSE p) + 1
            /\ out' = IF last_line = line THEN Append(out, <<"sep", 0>>) ELSE out
            /\ line' = line + 1
            /\ UNCHANGED <<last_line, errors, violations>>
       ELSE IF is_violation(Mem(data)[p], valid_chars)
       THEN /\ out' = IF verbose
                      THEN (IF line # last_line
                            THEN Append(out, <<"line", line>>) ELSE out)
                           \o <<<<"char", Mem(data)[p]>>>>
                      ELSE out
            /\ last_line' = IF verbose THEN line ELSE last_line
            /\ errors' = errors + 1
            /\ violations' = Append(violations, <<line, Mem(data)[p]>>)
            /\ p' = p + 1
            /\ UNCHANGED line
       ELSE /\ p' = p + 1
            /\ UNCHANGED <<line, last_line, errors, violations, out>>
    /\ UNCHANGED <<pc, cfg_vars, data, e, result, err, exit_code>>

\* variant: main returns the count itself
ScanEnd_ReturnsCount ==
    /\ pc = "scan"
    /\ Mem(data)[p] = CHAR_CODE_NUL
    /\ calls' = IF p = 1 THEN Append(calls, "scan") ELSE calls
    /\ out' = Append(out, <<"count", errors>>)
    /\ Exit(errors)
    /\ UNCHANGED <<cfg_vars, data, e, result, scan_vars, err>>

\* the loop ends at the NUL: the count is printed and main returns
ScanEnd ==
    /\ pc = "scan"
    /\ Mem(data)[p] = CHAR_CODE_NUL
    /\ calls' = IF p = 1 THEN Append(calls, "scan") ELSE calls
    /\ out' = Append(out, <<"count", errors>>)
    /\ Exit(IF errors = 0 THEN RETURN_VALID ELSE RETURN_INVALID)
    /\ UNCHANGED <<cfg_vars, data, e, result, scan_vars, err>>

Next ==
    \/ OptFile \/ OptFF \/ OptVT \/ OptNOHT \/ OptAPA \/ OptVerbose \/ OptEol
    \/ OptVersion \/ OptHelp \/ OptInvalid \/ OptionsDone
    \/ OpenInput \/ OpenFail
    \/ ReadChunk \/ ReadAllocFail \/ ReadEnd \/ EmptyInput
    \/ DetermineEol \/ KeepEol \/ ValidateEol
    \/ ScanStep \/ ScanEnd

Spec == Init /\ [][Next]_vars

\* ------------------------------------------- the passes taken on their own
\* determine_eol and validate_eol applied to every string and style
InitFn ==
    /\ pc = "fn"
    /\ data \in SeqsUpTo(EolBytes, MaxBuf)
    /\ eol \in EolStyles
    /\ valid_chars = valid_chars_init
    /\ verbose = FALSE /\ file = FALSE /\ eol_opt = "none" /\ seen = {}
    /\ e = "EOL_AUTO_NA" /\ result = 0
    /\ line = 0 /\ last_line = 0 /\ errors = 0 /\ p = 0 /\ violations = <<>>
    /\ out = <<>> /\ err = <<>> /\ calls = <<>> /\ exit_code = -1

\* e = determine_eol(data)
FnDetermineEol ==
    /\ pc = "fn"
    /\ e' = determine_eol(data)
    /\ calls' = Append(calls, "determine_eol")
    /\ pc' = "fn_detected"
    /\ UNCHANGED <<cfg_vars, data, result, scan_vars, out, err, exit_code>>

\* result = validate_eol(data, eol), eol any style
FnValidateEol ==
    /\ pc = "fn"
    /\ result' = validate_eol(data, eol)
    /\ calls' = Append(calls, "validate_eol")
    /\ pc' = "fn_validated"
    /\ UNCHANGED <<cfg_vars, data, e, scan_vars, out, err, exit_code>>

\* result = validate_eol(data, e), e the style determine_eol returned
FnValidateDetected ==
    /\ pc = "fn_detected"
    /\ result' = validate_eol(data, e)
    /\ calls' = Append(calls, "validate_eol")
    /\ pc' = "fn_checked"
    /\ UNCHANGED <<cfg_vars, data, e, scan_vars, out, err, exit_code>>

NextFn == FnDetermineEol \/ FnValidateEol \/ FnValidateDetected

SpecFn == InitFn /\ [][NextFn]_vars

\* the options that change valid_chars
FlagOptions == {"ARG_ID_FF", "ARG_ID_VT", "ARG_ID_APA", "ARG_ID_NOHT"}

\* valid_chars after the options in fl were read
table_of(fl) ==
    LET t1 == IF "ARG_ID_FF" \in fl THEN allow_ff(valid_chars_init)
              ELSE valid_chars_init
        t2 == IF "ARG_ID_VT" \in fl THEN allow_vt(t1) ELSE t1
        t3 == IF "ARG_ID_NOHT" \in fl THEN forbid_ht(t2) ELSE t2
    IN  IF "ARG_ID_APA" \in fl THEN allow_apa(t3) ELSE t3

\* the scan loop entered with a string from bufs, any style, any policy
ScanStart(bufs) ==
    /\ pc = "scan"
    /\ data \in bufs
    /\ e \in EolStyles
    /\ seen \in SUBSET FlagOptions
    /\ valid_chars = table_of(seen)
    /\ verbose \in BOOLEAN
    /\ eol = e /\ file = FALSE /\ eol_opt = "none" /\ result = 0
    /\ line = 1 /\ last_line = 0 /\ errors = 0 /\ p = 1 /\ violations = <<>>
    /\ out = <<>> /\ err = <<>> /\ calls = <<>> /\ exit_code = -1

NextScan == ScanStep \/ ScanEnd

\* the scan loop over every string, style and policy
InitScan == ScanStart(SeqsUpTo(ScanBytes, MaxScanLen))

SpecScan == InitScan /\ [][NextScan]_vars

\* the scan loop over every one-byte string, style and policy
InitPolicy == ScanStart({<<c>> : c \in Byte \ {CHAR_CODE_NUL}})

SpecPolicy == InitPolicy /\ [][NextScan]_vars

\* --------------------------------------------- the loops, one iteration each
LoopPcs == {"det_loop", "val_loop", "scan"}

ReturnPcs == {"det_return", "val_return", "exit"}

\* each pass at its entry, on every string and style; determine_eol keeps its
\* local eol in e, validate_eol has its argument in eol, the scan reads e
InitLoops ==
    /\ data \in SeqsUpTo(EolBytes, MaxBuf)
    /\ \/ pc = "det_loop" /\ e = "EOL_AUTO_NA" /\ eol = "EOL_AUTO_NA"
       \/ pc = "val_enter" /\ eol \in EolStyles /\ e = eol
       \/ pc = "scan" /\ e \in EolStyles /\ eol = e
    /\ valid_chars = valid_chars_init
    /\ verbose = FALSE /\ file = FALSE /\ eol_opt = "none" /\ seen = {}
    /\ result = 0
    /\ line = 1 /\ last_line = 0 /\ errors = 0 /\ p = 1 /\ violations = <<>>
    /\ out = <<>> /\ err = <<>> /\ calls = <<>> /\ exit_code = -1

\* one iteration of the for loop of determine_eol, or its return
DetermineEolStep ==
    /\ pc = "det_loop"
    /\ LET c == Mem(data)[p]
       IN  IF c = CHAR_CODE_NUL
           THEN pc' = "det_return" /\ UNCHANGED <<e, p>>
           ELSE IF c = CHAR_CODE_LF
           THEN /\ e' = IF e = "EOL_CR" THEN "EOL_CRLF" ELSE "EOL_LF"
                /\ pc' = "det_return" /\ UNCHANGED p
           ELSE IF c = CHAR_CODE_CR
           THEN e' = "EOL_CR" /\ p' = p + 1 /\ UNCHANGED pc
           ELSE IF e = "EOL_CR"
           THEN pc' = "det_return" /\ UNCHANGED <<e, p>>
           ELSE p' = p + 1 /\ UNCHANGED <<pc, e>>
    /\ UNCHANGED <<cfg_vars, data, result, line, last_line, errors,
                   violations, out, err, calls, exit_code>>

\* the switch of validate_eol
ValidateEolEnter ==
    /\ pc = "val_enter"
    /\ IF eol \in {"EOL_CR", "EOL_LF", "EOL_CRLF"}
       THEN pc' = "val_loop" /\ UNCHANGED result
       ELSE pc' = "val_return" /\ result' = 0
    /\ UNCHANGED <<cfg_vars, data, e, scan_vars, out, err, calls, exit_code>>

\* variant: in the two-byte case the second byte is not tested
ValidateEolStep_SkipsPair ==
    /\ pc = "val_loop"
    /\ p <= Len(data) + 1
    /\ LET c == Mem(data)[p]
       IN  IF c = CHAR_CODE_NUL
           THEN pc' = "val_return" /\ result' = 0 /\ UNCHANGED <<line, p>>
           ELSE IF c = eol_chars0(eol)
           THEN /\ line' = line + 1 /\ p' = p + eol_len(eol)
                /\ UNCHANGED <<pc, result>>
           ELSE IF c = eol_invalid(eol)
           THEN pc' = "val_return" /\ result' = line /\ UNCHANGED <<line, p>>
           ELSE p' = p + 1 /\ UNCHANGED <<pc, result, line>>
    /\ UNCHANGED <<cfg_vars, data, e, last_line, errors, violations,
                   out, err, calls, exit_code>>

\* one iteration of the while loop of validate_eol, or its return
ValidateEolStep ==
    /\ pc = "val_loop"
    /\ LET c == Mem(data)[p]
       IN  IF c = CHAR_CODE_NUL
           THEN pc' = "val_return" /\ result' = 0 /\ UNCHANGED <<line, p>>
           ELSE IF c = eol_chars0(eol)
           THEN IF eol_len(eol) = 1
                THEN /\ line' = line + 1 /\ p' = p + 1
                     /\ UNCHANGED <<pc, result>>
                ELSE IF Mem(data)[p + 1] = eol_chars1(eol)
                     THEN /\ line' = line + 1 /\ p' = p + eol_len(eol)
                          /\ UNCHANGED <<pc, result>>
                     ELSE /\ pc' = "val_return" /\ result' = line
                          /\ UNCHANGED <<line, p>>
           ELSE IF c = eol_invalid(eol)
           THEN pc' = "val_return" /\ result' = line /\ UNCHANGED <<line, p>>
           ELSE p' = p + 1 /\ UNCHANGED <<pc, result, line>>
    /\ UNCHANGED <<cfg_vars, data, e, last_line, errors, violations,
                   out, err, calls, exit_code>>

NextLoops ==
    \/ DetermineEolStep
    \/ ValidateEolEnter
    \/ ValidateEolStep
    \/ ScanStep
    \/ ScanEnd

\* the three loops, each iteration taken when it can be
SpecLoops == InitLoops /\ [][NextLoops]_vars /\ WF_vars(NextLoops)

\* ======================================================================
\* Properties
\* ======================================================================
Range(q) == {q[i] : i \in 1..Len(q)}
Positions(buf, c) == {i \in 1..Len(buf) : buf[i] = c}
Min(S) == CHOOSE x \in S : \A y \in S : x <= y
Printed(kind) == {i \in 1..Len(out) : out[i][1] = kind}

\* ---------------------------------------------------------------------- C1
\* C1: the passes run in the order determine_eol (only when the configured
\* style is EOL_AUTO_NA), validate_eol, scan; every non-empty input that is
\* read to its end is validated; a result other than 0 ends the run with
\* RETURN_ERROR_EOL, with no scan and no count printed; the scan is entered
\* only after validate_eol returned 0.
PipelineOrder ==
    /\ calls \in {<<>>, <<"determine_eol">>, <<"validate_eol">>,
                  <<"determine_eol", "validate_eol">>,
                  <<"validate_eol", "scan">>,
                  <<"determine_eol", "validate_eol", "scan">>}
    /\ ("determine_eol" \in Range(calls)) => (eol = "EOL_AUTO_NA")
    /\ (pc = "scan" \/ "scan" \in Range(calls)) =>
            ("validate_eol" \in Range(calls) /\ result = 0)
    /\ ("validate_eol" \in Range(calls) /\ result # 0) =>
            /\ pc = "exit" /\ exit_code = RETURN_ERROR_EOL
            /\ "scan" \notin Range(calls)
            /\ Printed("count") = {}
            /\ errors = 0 /\ violations = <<>>
    /\ (pc = "exit" /\ exit_code = RETURN_ERROR_EOL) =>
            ("validate_eol" \in Range(calls) /\ result # 0)
    /\ (pc = "exit" /\ Len(data) > 0
          /\ exit_code \in {RETURN_VALID, RETURN_INVALID, RETURN_ERROR_EOL}) =>
            "validate_eol" \in Range(calls)

\* an input whose style was detected and whose check failed
PipelineOrderWitness ==
    /\ pc = "exit" /\ exit_code = RETURN_ERROR_EOL
    /\ calls = <<"determine_eol", "validate_eol">>
    /\ result = 2

\* ---------------------------------------------------------------------- C2
Terminator(style) == IF style = "EOL_LF" THEN CHAR_CODE_LF ELSE CHAR_CODE_CR
Complement(style) == IF style = "EOL_LF" THEN CHAR_CODE_CR ELSE CHAR_CODE_LF

\* what C2 says validate returns for a single-byte style
SingleByteLine(buf, style) ==
    IF Positions(buf, Complement(style)) = {} THEN 0
    ELSE 1 + Cardinality({j \in Positions(buf, Terminator(style)) :
                            j < Min(Positions(buf, Complement(style)))})

\* C2: for style LF or CR, validate_eol returns 1 + the number of expected
\* terminator bytes before the first complementary byte when the string has
\* a complementary byte, and 0 when it has none.
ValidateSingleByte ==
    (pc = "fn_validated" /\ eol \in {"EOL_LF", "EOL_CR"}) =>
        result = SingleByteLine(data, eol)

\* a mismatch on line 2 of a string that has three lines
ValidateSingleByteWitness ==
    /\ pc = "fn_validated" /\ eol = "EOL_LF"
    /\ result = 2
    /\ Cardinality(Positions(data, CHAR_CODE_LF)) = 2

\* ---------------------------------------------------------------------- C3
\* the offending bytes of a string under CRLF: a CR not followed by LF (a CR
\* that is the last byte included) and an LF not preceded by CR
CrlfOffending(buf) ==
    {i \in 1..Len(buf) :
        \/ buf[i] = CHAR_CODE_CR /\ (i = Len(buf) \/ buf[i + 1] # CHAR_CODE_LF)
        \/ buf[i] = CHAR_CODE_LF /\ (i = 1 \/ buf[i - 1] # CHAR_CODE_CR)}

CrlfPairsBefore(buf, k) ==
    {j \in 1..(k - 1) : buf[j] = CHAR_CODE_CR /\ j + 1 < k
                        /\ buf[j + 1] = CHAR_CODE_LF}

CrlfLine(buf) ==
    IF CrlfOffending(buf) = {} THEN 0
    ELSE 1 + Cardinality(CrlfPairsBefore(buf, Min(CrlfOffending(buf))))

\* C3: for style CRLF, validate_eol returns 0 exactly when every CR is
\* followed by LF and every LF preceded by CR, and otherwise 1 + the number
\* of complete CR LF pairs before the first offending byte; "a CRLF b LF c
\* CRLF" gives 2 and "hello LF world" gives 1.
ValidateCrlf ==
    /\ (pc = "fn_validated" /\ eol = "EOL_CRLF") =>
            /\ result = CrlfLine(data)
            /\ (result = 0) <=> (CrlfOffending(data) = {})
    /\ validate_eol(<<97, 13, 10, 98, 10, 99, 13, 10>>, "EOL_CRLF") = 2
    /\ validate_eol(<<104, 101, 108, 108, 111, 10, 119, 111, 114, 108, 100>>,
                    "EOL_CRLF") = 1

\* a bare LF after one complete pair
ValidateCrlfWitness ==
    /\ pc = "fn_validated" /\ eol = "EOL_CRLF"
    /\ result = 2
    /\ data[Min(CrlfOffending(data))] = CHAR_CODE_LF

\* ---------------------------------------------------------------------- C4
HasTerminator(buf) == \E i \in 1..Len(buf) : buf[i] \in {CHAR_CODE_LF, CHAR_CODE_CR}

\* the style of the first terminator, read as CRLF, bare CR or bare LF
FirstTerminatorStyle(buf) ==
    LET i == Min({j \in 1..Len(buf) : buf[j] \in {CHAR_CODE_LF, CHAR_CODE_CR}})
    IN  IF buf[i] = CHAR_CODE_LF THEN "EOL_LF"
        ELSE IF i < Len(buf) /\ buf[i + 1] = CHAR_CODE_LF THEN "EOL_CRLF"
        ELSE "EOL_CR"

\* C4: for a string with an LF, or with a CR that is not the last byte,
\* determine_eol returns the style of the first terminator.
DetectFirstTerminator ==
    (/\ pc = "fn_detected"
     /\ \/ Positions(data, CHAR_CODE_LF) # {}
        \/ \E i \in Positions(data, CHAR_CODE_CR) : i < Len(data)) =>
        e = FirstTerminatorStyle(data)

\* ---------------------------------------------------------------------- C5
LoneTrailingCr(buf) ==
    /\ Positions(buf, CHAR_CODE_LF) = {}
    /\ Positions(buf, CHAR_CODE_CR) = {Len(buf)}

\* C5 as stated: determine_eol returns EOL_AUTO_NA for a string without CR
\* and LF, and for a string whose only CR/LF byte is a CR as its last byte.
DetectUnresolved ==
    (pc = "fn_detected" /\ (~HasTerminator(data) \/ LoneTrailingCr(data))) =>
        e = "EOL_AUTO_NA"

\* C5, amended: determine_eol returns EOL_AUTO_NA exactly for the strings
\* without CR and LF; for a string whose only CR/LF byte is a CR as its last
\* byte it returns EOL_CR.
DetectUnresolvedAmended ==
    pc = "fn_detected" =>
        /\ (e = "EOL_AUTO_NA") <=> ~HasTerminator(data)
        /\ LoneTrailingCr(data) => e = "EOL_CR"

\* a lone trailing CR, detected as CR
DetectUnresolvedWitness ==
    /\ pc = "fn_detected"
    /\ Len(data) > 1 /\ LoneTrailingCr(data)
    /\ e = "EOL_CR"

\* ---------------------------------------------------------------------- C6
\* C6: for a string with at least one LF and no CR, determine_eol returns
\* EOL_LF and validate_eol against the detected style returns 0.
LfOnlyDetectedAndValid ==
    (/\ pc \in {"fn_detected", "fn_checked"}
     /\ Positions(data, CHAR_CODE_LF) # {}
     /\ Positions(data, CHAR_CODE_CR) = {}) =>
        /\ e = "EOL_LF"
        /\ pc = "fn_checked" => result = 0

\* two LF-terminated lines, detected and validated
LfOnlyWitness ==
    /\ pc = "fn_checked"
    /\ Cardinality(Positions(data, CHAR_CODE_LF)) = 2
    /\ Positions(data, CHAR_CODE_CR) = {}
    /\ e = "EOL_LF" /\ result = 0

\* ---------------------------------------------------------------------- C7
\* the character policy as C7 states it, fl the options given
PolicyViolation(c, fl) ==
    \/ c >= 127
    \/ c < 32 /\ c \notin {CHAR_CODE_HT, CHAR_CODE_LF, CHAR_CODE_CR,
                           CHAR_CODE_FF, CHAR_CODE_VT}
    \/ c = CHAR_CODE_FF /\ "ARG_ID_FF" \notin fl
    \/ c = CHAR_CODE_VT /\ "ARG_ID_VT" \notin fl
    \/ c \in {CHAR_CODE_DOLLAR, CHAR_CODE_AT, CHAR_CODE_BACKTICK}
        /\ "ARG_ID_APA" \notin fl
    \/ c = CHAR_CODE_HT /\ "ARG_ID_NOHT" \in fl

\* the one byte of the string is the EOL of the style
OneByteEol(c, style) ==
    \/ style = "EOL_LF" /\ c = CHAR_CODE_LF
    \/ style = "EOL_CR" /\ c = CHAR_CODE_CR

\* C7: for every combination of the four options and every byte 1..255
\* scanned as a non-EOL byte, the scan counts the byte exactly when the
\* policy of C7 makes it a violation; the byte 0, which ends the string,
\* is disallowed by the table under every combination.
CharacterPolicy ==
    /\ pc = "exit" =>
        LET viol == ~OneByteEol(data[1], e) /\ PolicyViolation(data[1], seen)
        IN  /\ errors = (IF viol THEN 1 ELSE 0)
            /\ violations = (IF viol THEN <<<<1, data[1]>>>> ELSE <<>>)
            /\ exit_code = (IF viol THEN RETURN_INVALID ELSE RETURN_VALID)
    /\ is_violation(CHAR_CODE_NUL, valid_chars)
           <=> PolicyViolation(CHAR_CODE_NUL, seen)

\* '$' scanned with --all given, and not counted
CharacterPolicyWitness ==
    /\ pc = "exit"
    /\ data = <<CHAR_CODE_DOLLAR>>
    /\ seen = {"ARG_ID_APA", "ARG_ID_NOHT"}
    /\ errors = 0

\* ---------------------------------------------------------------------- C8
\* byte i of buf belongs to an EOL sequence of the style
InEolSequence(buf, i, style) ==
    CASE style = "EOL_LF" -> buf[i] = CHAR_CODE_LF
      [] style = "EOL_CR" -> buf[i] = CHAR_CODE_CR
      [] style = "EOL_CRLF" ->
            \/ buf[i] = CHAR_CODE_CR /\ i < Len(buf) /\ buf[i + 1] = CHAR_CODE_LF
            \/ buf[i] = CHAR_CODE_LF /\ i > 1 /\ buf[i - 1] = CHAR_CODE_CR
      [] OTHER -> FALSE

\* the bytes among the first n of buf that C8 counts
ViolatingPositions(buf, n, style, fl) ==
    {i \in 1..n : ~InEolSequence(buf, i, style) /\ PolicyViolation(buf[i], fl)}

\* C8: when the scan has completed, errors is the number of bytes of the
\* whole input (0x00 included) that belong to no EOL sequence and violate
\* the policy.
ScanCountsWholeInput ==
    (pc = "exit" /\ "scan" \in Range(calls)) =>
        errors = Cardinality(ViolatingPositions(data, Len(data), e, seen))

\* ---------------------------------------------------------------------- C9
\* C9: no counted violation and no printed character is LF or CR, whatever
\* the policy and the style, also where the CR or LF is not part of the
\* style's EOL sequence; errors counts the recorded violations only, so at
\* most the bytes scanned so far that are neither LF nor CR.
EolBytesNeverViolations ==
    /\ \A i \in 1..Len(violations) :
            violations[i][2] \notin {CHAR_CODE_LF, CHAR_CODE_CR}
    /\ \A i \in Printed("char") : out[i][2] \notin {CHAR_CODE_LF, CHAR_CODE_CR}
    /\ errors = Len(violations)
    /\ pc = "scan" =>
        errors <= Cardinality({i \in 1..(p - 1) :
                                data[i] \notin {CHAR_CODE_LF, CHAR_CODE_CR}})

\* a CR under style LF and every option given: classified, not counted
EolBytesNeverViolationsWitness ==
    /\ pc = "scan" /\ p = 3
    /\ e = "EOL_LF" /\ seen = FlagOptions
    /\ data[1] = CHAR_CODE_CR /\ data[2] = CHAR_CODE_LF
    /\ errors = 0 /\ line = 2

\* --------------------------------------------------------------------- C10
\* the EOL sequences of the style that begin before byte i
EolSequencesBefore(buf, i, style) ==
    CASE style = "EOL_LF" -> Cardinality({j \in 1..(i - 1) : buf[j] = CHAR_CODE_LF})
      [] style = "EOL_CR" -> Cardinality({j \in 1..(i - 1) : buf[j] = CHAR_CODE_CR})
      [] style = "EOL_CRLF" ->
            Cardinality({j \in 1..(i - 1) : /\ buf[j] = CHAR_CODE_CR
                                            /\ buf[j + 1] = CHAR_CODE_LF})
      [] OTHER -> 0

\* the k-th smallest element of S
Kth(S, k) == CHOOSE x \in S : Cardinality({y \in S : y < x}) = k - 1

\* the violations C10 expects from the first n bytes, in buffer order
ExpectedViolations(buf, n, style, fl) ==
    LET S == ViolatingPositions(buf, n, style, fl)
    IN  [k \in 1..Cardinality(S) |->
            <<1 + EolSequencesBefore(buf, Kth(S, k), style), buf[Kth(S, k)]>>]

\* C10: the violations recorded so far are those of the bytes scanned so
\* far, in buffer order, each with line = 1 + the EOL sequences of the style
\* before the byte; lines are >= 1 and non-decreasing; a single '@' on the
\* third line under the default policy gives exactly (3, 0x40), errors = 1.
ViolationLines ==
    /\ pc = "scan" =>
            violations = ExpectedViolations(data, p - 1, e, seen)
    /\ pc = "exit" =>
            violations = ExpectedViolations(data, Len(data), e, seen)
    /\ \A i \in 1..Len(violations) : violations[i][1] >= 1
    /\ \A i, j \in 1..Len(violations) :
            i < j => violations[i][1] <= violations[j][1]
    /\ (/\ pc = "exit" /\ e = "EOL_LF" /\ seen = {}
        /\ data = <<CHAR_CODE_LF, CHAR_CODE_LF, CHAR_CODE_AT>>) =>
            (violations = <<<<3, CHAR_CODE_AT>>>> /\ errors = 1)

\* the '@' on the third line, scanned
ViolationLinesWitness ==
    /\ pc = "exit" /\ e = "EOL_LF" /\ seen = {}
    /\ data = <<CHAR_CODE_LF, CHAR_CODE_LF, CHAR_CODE_AT>>
    /\ violations = <<<<3, CHAR_CODE_AT>>>>

\* --------------------------------------------------------------------- C11
\* C11: when the scan has completed, exactly one count is printed, it is the
\* last output and equals errors, and the exit status is RETURN_VALID when
\* errors = 0 and RETURN_INVALID when errors >= 1, never another one.
ResultCodeFromScan ==
    (pc = "exit" /\ "scan" \in Range(calls)) =>
        /\ Cardinality(Printed("count")) = 1
        /\ out[Len(out)] = <<"count", errors>>
        /\ errors = Len(violations)
        /\ exit_code \in {RETURN_VALID, RETURN_INVALID}
        /\ (exit_code = RETURN_VALID) <=> (errors = 0)
        /\ (exit_code = RETURN_INVALID) <=> (errors >= 1)

\* a completed scan with two violations
ResultCodeFromScanWitness ==
    /\ pc = "exit" /\ "scan" \in Range(calls)
    /\ errors = 2 /\ exit_code = RETURN_INVALID

\* --------------------------------------------------------------------- C13
Written(kind) == {i \in 1..Len(err) : err[i][1] = kind}

\* the run ended at the test of total_size, with nothing accumulated
EndedOnEmptyInput ==
    /\ pc = "exit" /\ Len(data) = 0
    /\ err = <<>> /\ Printed("version") = {} /\ Printed("help") = {}

\* C13: while the accumulated input has length 0 no pass has run and no
\* violation, count or EOL mismatch was produced; a run that ends on the
\* empty input ends with EXIT_SUCCESS, under every configuration.
EmptyInputSucceeds ==
    /\ Len(data) = 0 =>
        /\ calls = <<>> /\ violations = <<>> /\ errors = 0
        /\ Printed("count") = {} /\ Printed("line") = {} /\ Printed("char") = {}
        /\ Written("unexpected_eol") = {}
        /\ exit_code \notin {RETURN_INVALID, RETURN_ERROR_EOL}
    /\ EndedOnEmptyInput =>
        /\ exit_code = EXIT_SUCCESS
        /\ (Printed("empty") # {}) <=> verbose

\* an empty input under --verbose, -e CRLF and --noht
EmptyInputWitness ==
    /\ EndedOnEmptyInput
    /\ verbose /\ eol = "EOL_CRLF" /\ "ARG_ID_NOHT" \in seen
    /\ Printed("empty") # {}
    /\ exit_code = EXIT_SUCCESS

\* --------------------------------------------------------------------- C14
\* C14: an allocation failure ends the run with RETURN_ERROR_UNSPECIFIC, a
\* failed fopen with RETURN_ERROR_INPUT, an unsupported EOL value or unknown
\* option with RETURN_ERROR_OPTIONS, and only these do; after any of them no
\* pass has run and no count is printed.
FatalErrorsDistinct ==
    /\ (Written("alloc_failed") # {}) <=>
            (pc = "exit" /\ exit_code = RETURN_ERROR_UNSPECIFIC)
    /\ (Written("open_failed") # {}) <=>
            (pc = "exit" /\ exit_code = RETURN_ERROR_INPUT)
    /\ (Written("eol_not_supported") # {} \/ Written("invalid_option") # {}) <=>
            (pc = "exit" /\ exit_code = RETURN_ERROR_OPTIONS)
    /\ (eol_opt \in {"XX", "NULL"} \/ "unknown" \in seen) =>
            (pc = "exit" /\ exit_code = RETURN_ERROR_OPTIONS)
    /\ (pc = "exit" /\ exit_code \in {RETURN_ERROR_UNSPECIFIC, RETURN_ERROR_INPUT,
                                      RETURN_ERROR_OPTIONS}) =>
            /\ calls = <<>>
            /\ Printed("count") = {}
            /\ errors = 0 /\ violations = <<>>

\* the allocation fails after a first chunk was accumulated
FatalErrorsWitness ==
    /\ pc = "exit" /\ exit_code = RETURN_ERROR_UNSPECIFIC
    /\ Len(data) > 0 /\ verbose

\* --------------------------------------------------------------------- C12
\* C12: the outcome of a completed scan is a function of the string, the
\* style and the options that set the policy, and of nothing else: the
\* violations, their order, errors and the exit status are the values below,
\* which do not read verbose, so two scans of the same string, style and
\* policy agree, with verbose on as with verbose off.
ScanResultIsFunction ==
    pc = "exit" =>
        LET n == Cardinality(ViolatingPositions(data, Len(data), e, seen))
        IN  /\ violations = ExpectedViolations(data, Len(data), e, seen)
            /\ errors = n
            /\ exit_code = (IF n = 0 THEN RETURN_VALID ELSE RETURN_INVALID)
            /\ out[Len(out)] = <<"count", n>>

\* two violations counted with verbose off
ScanResultIsFunctionWitness ==
    /\ pc = "exit" /\ ~verbose
    /\ errors = 2
    /\ out = <<<<"count", 2>>>>

\* --------------------------------------------------------------------- C15
\* C15: when the last value given to -e/--eol is "CR", validate_eol runs
\* with the style EOL_CR, and an input whose string has no LF (bare CRs are
\* its only terminators) passes the check.
CrOptionSelectsCr ==
    (eol_opt = "CR" /\ "validate_eol" \in Range(calls)) =>
        /\ e = "EOL_CR"
        /\ Positions(CString(data), CHAR_CODE_LF) = {} =>
              (result = 0 /\ exit_code # RETURN_ERROR_EOL)

\* --------------------------------------------------------------------- C16
\* C16: whenever validate_eol returned a line n > 0, the message naming line
\* n was written, with verbose on as with verbose off.
EolMismatchReported ==
    ("validate_eol" \in Range(calls) /\ result > 0) =>
        (Len(err) > 0 /\ err[Len(err)] = <<"unexpected_eol", result>>)

\* --------------------------------------------------------------------- C17
\* an EOL sequence of the style begins at byte i of m
StartsEol(m, i, style) ==
    CASE style = "EOL_LF" -> m[i] = CHAR_CODE_LF
      [] style = "EOL_CR" -> m[i] = CHAR_CODE_CR
      [] style = "EOL_CRLF" -> m[i] = CHAR_CODE_CR /\ m[i + 1] = CHAR_CODE_LF
      [] OTHER -> FALSE

\* C17: after validate_eol returned 0, the cursor and line counter of the
\* scan loop are always a (cursor, line) pair the loop of validate_eol had
\* (with EOL_AUTO_NA, which validate_eol does not loop over, the line stays
\* 1), the final pair included, and a CR or LF under the cursor always
\* begins an EOL sequence of the style: none reaches the classification.
ScanFollowsValidate ==
    (pc \in {"scan", "exit"} /\ "validate_eol" \in Range(calls) /\ result = 0) =>
        /\ e # "EOL_AUTO_NA" =>
              <<p, line>> \in validate_eol_cursor(Mem(data), 1, 1, e)
        /\ e = "EOL_AUTO_NA" => line = 1
        /\ Mem(data)[p] \in {CHAR_CODE_CR, CHAR_CODE_LF} =>
              StartsEol(Mem(data), p, e)
        /\ pc = "exit" => Mem(data)[p] = CHAR_CODE_NUL
        /\ \A i \in 1..Len(violations) :
              violations[i][2] \notin {CHAR_CODE_CR, CHAR_CODE_LF}

\* a CR LF pair and a further byte, scanned to the end under EOL_CRLF
ScanFollowsValidateWitness ==
    /\ pc = "exit" /\ "scan" \in Range(calls)
    /\ e = "EOL_CRLF" /\ line = 2 /\ p = 4

\* --------------------------------------------------------------------- C18
\* the lines on which a violation was found so far
ViolationLineSet == {violations[i][1] : i \in 1..Len(violations)}

\* C18: with verbose off last_line stays 0 and nothing is printed but the
\* final count; with verbose on, last_line equals the line counter exactly
\* when a violation was found on the current line, one separator was printed
\* for each line already left that has a violation (so a crossing prints one
\* if and only if the line being left has a violation), each right after
\* the characters of that line, and the header of a line was printed exactly
\* once for each line that has a violation.
SeparatorRule ==
    /\ ~verbose =>
          /\ last_line = 0
          /\ Printed("sep") = {} /\ Printed("line") = {} /\ Printed("char") = {}
          /\ out = IF pc = "exit" THEN <<<<"count", errors>>>> ELSE <<>>
    /\ verbose =>
          /\ (last_line = line) <=> (line \in ViolationLineSet)
          /\ Cardinality(Printed("sep")) =
                Cardinality({l \in ViolationLineSet : l < line})
          /\ \A i \in Printed("sep") : i > 1 /\ out[i - 1][1] = "char"
          /\ {out[i][2] : i \in Printed("line")} = ViolationLineSet
          /\ Cardinality(Printed("line")) = Cardinality(ViolationLineSet)
          /\ \A i \in Printed("line") : i < Len(out) /\ out[i + 1][1] = "char"

\* verbose: violations on lines 1 and 2, one separator, two headers
SeparatorRuleWitness ==
    /\ pc = "exit" /\ verbose
    /\ data = <<CHAR_CODE_AT, CHAR_CODE_LF, CHAR_CODE_AT>> /\ e = "EOL_LF"
    /\ seen = {}
    /\ out = << <<"line", 1>>, <<"char", CHAR_CODE_AT>>, <<"sep", 0>>,
                <<"line", 2>>, <<"char", CHAR_CODE_AT>>, <<"count", 2>> >>

\* --------------------------------------------------------------------- C19
\* the style of the pass that is running
PassStyle == IF pc = "scan" THEN e ELSE eol

\* an iteration leaves the loop with the cursor where it was, or advances
\* the cursor by 1 or by 2
IterationAdvances ==
    pc \in LoopPcs =>
        \/ pc' \in ReturnPcs /\ p' = p
        \/ pc' = pc /\ (p' = p + 1 \/ p' = p + 2)

\* the cursor moves only off a byte that is not the NUL, and by 2 only off a
\* CR followed by LF under EOL_CRLF, never in determine_eol
PairAdvance ==
    p' # p =>
        /\ Mem(data)[p] # CHAR_CODE_NUL
        /\ p' = p + 2 =>
              /\ pc # "det_loop" /\ PassStyle = "EOL_CRLF"
              /\ Mem(data)[p] = CHAR_CODE_CR
              /\ Mem(data)[p + 1] = CHAR_CODE_LF

\* C19: on every NUL-terminated string and every style each of the three
\* loops ends; an iteration either leaves the loop with the cursor where it
\* was or advances the cursor by 1 or by 2; the cursor stays between the
\* first byte and the terminating NUL; the advance by 2 is taken only under
\* EOL_CRLF on a CR whose next byte is LF and never by determine_eol, so a
\* CR that is the last byte is not stepped over; what the loops return is
\* what determine_eol and validate_eol return.
PassesTerminateInBounds ==
    /\ <>(pc \in ReturnPcs)
    /\ [](p >= 1 /\ p <= Len(data) + 1)
    /\ [](pc = "det_return" => e = determine_eol(data))
    /\ [](pc = "val_return" => result = validate_eol(data, eol))
    /\ [][IterationAdvances]_vars
    /\ [][PairAdvance]_vars

\* validate_eol under EOL_CRLF returned on a CR that is the last byte, after
\* a CR LF pair it stepped over
PassesTerminateWitness ==
    /\ pc = "val_return" /\ eol = "EOL_CRLF"
    /\ Len(data) = 3 /\ data[3] = CHAR_CODE_CR
    /\ p = 3 /\ line = 2 /\ result = 2

====
